---- MODULE Spec2Model ----
(***************************************************************************)
(* Model of soramarker's App component (src/src/App.jsx, the mediabunny    *)
(* version, lines 207-573): the per-frame watermark placement computed in  *)
(* the Conversion `process` callback, and the applyWatermark run together  *)
(* with the user actions around it.                                        *)
(*                                                                         *)
(* JavaScript numbers are modelled as exact rationals <<n, d>> (d > 0,     *)
(* lowest terms); IEEE-754 rounding is not modelled.                       *)
(***************************************************************************)
EXTENDS Integers, Naturals, Sequences, FiniteSets, TLC

----------------------------------------------------------------------------
(* Bounds of the model *)

\* frames in one video file
MaxFrames == 2
\* applyWatermark runs started in one behaviour
MaxRuns == 2
\* time shifts applied to one placement query
MaxShifts == 2

----------------------------------------------------------------------------
(* JavaScript number arithmetic, on exact rationals *)

Abs(n) == IF n < 0 THEN -n ELSE n

RECURSIVE GCD(_, _)
GCD(a, b) == IF b = 0 THEN a ELSE GCD(b, a % b)

\* the number n/d (d # 0) in lowest terms with a positive denominator
Rat(n, d) ==
    LET g == GCD(Abs(n), Abs(d))
        s == IF d < 0 THEN -1 ELSE 1
    IN  <<(s * n) \div g, (s * d) \div g>>

Num(n) == <<n, 1>>

NumAdd(a, b) == Rat(a[1] * b[2] + b[1] * a[2], a[2] * b[2])
NumSub(a, b) == Rat(a[1] * b[2] - b[1] * a[2], a[2] * b[2])
NumMul(a, b) == Rat(a[1] * b[1], a[2] * b[2])
\* a / b for b # 0
NumDiv(a, b) == Rat(a[1] * b[2], a[2] * b[1])
NumLt(a, b)  == a[1] * b[2] < b[1] * a[2]

\* a % m for m > 0: the remainder of the truncated division, which has the
\* sign of the dividend a
NumRem(a, m) ==
    LET k == m[1] * a[2]
        n == a[1] * m[2]
        r == IF n < 0 THEN -((-n) % k) ELSE n % k
    IN  Rat(r, a[2] * m[2])

----------------------------------------------------------------------------
(* The placement computed by the process callback *)

\* const cycle = t % 15
Cycle(t) == NumRem(t, Num(15))

\* the if / else-if chain on cycle: which of the five branches is taken
Branch(cycle) ==
    IF NumLt(cycle, Num(3)) THEN 1
    ELSE IF NumLt(cycle, Num(6)) THEN 2
    ELSE IF NumLt(cycle, Num(9)) THEN 3
    ELSE IF NumLt(cycle, Num(12)) THEN 4
    ELSE 5

\* x = W - (5 * w) / 4
RightX(W, w) == NumSub(W, NumDiv(NumMul(Num(5), w), Num(4)))
\* x = w / 4
LeftX(w) == NumDiv(w, Num(4))
\* y = (H - h) / 2
CenterY(H, h) == NumDiv(NumSub(H, h), Num(2))
\* y = H - (3 * h) / 2
LowerY(H, h) == NumSub(H, NumDiv(NumMul(Num(3), h), Num(2)))
\* y = h / 2
UpperY(h) == NumDiv(h, Num(2))

\* a boundary slip: <= instead of < in the first comparison
PlaceInclusive(t, W, H, w, h) ==
    LET cycle == Cycle(t)
    IN  IF ~NumLt(Num(3), cycle) THEN <<RightX(W, w), CenterY(H, h)>>
        ELSE IF NumLt(cycle, Num(6)) THEN <<LeftX(w), LowerY(H, h)>>
        ELSE IF NumLt(cycle, Num(9)) THEN <<RightX(W, w), UpperY(h)>>
        ELSE IF NumLt(cycle, Num(12)) THEN <<RightX(W, w), LowerY(H, h)>>
        ELSE <<LeftX(w), UpperY(h)>>

\* a copy-paste slip: the fourth branch repeats the third branch's y
PlaceStuck(t, W, H, w, h) ==
    LET b == Branch(Cycle(t))
    IN  IF b = 1 THEN <<RightX(W, w), CenterY(H, h)>>
        ELSE IF b = 2 THEN <<LeftX(w), LowerY(H, h)>>
        ELSE IF b = 3 THEN <<RightX(W, w), UpperY(h)>>
        ELSE IF b = 4 THEN <<RightX(W, w), UpperY(h)>>
        ELSE <<LeftX(w), UpperY(h)>>

\* (x, y) for timestamp t, canvas W x H and watermark draw size w x h
Place(t, W, H, w, h) ==
    LET b == Branch(Cycle(t))
    IN  IF b = 1 THEN <<RightX(W, w), CenterY(H, h)>>
        ELSE IF b = 2 THEN <<LeftX(w), LowerY(H, h)>>
        ELSE IF b = 3 THEN <<RightX(W, w), UpperY(h)>>
        ELSE IF b = 4 THEN <<RightX(W, w), LowerY(H, h)>>
        ELSE <<LeftX(w), UpperY(h)>>

----------------------------------------------------------------------------
(* Inputs *)

\* sample.displayWidth / sample.displayHeight of decoded samples
Widths == {0, 16, 32}
Heights == {8}
\* sample.timestamp of decoded samples, in seconds. The callback passes it
\* to `%` unchecked; a sample presented before the start of the track (an
\* edit list, reordered frames) carries a negative timestamp.
Timestamps == {Num(-1), Rat(3, 2), Num(3), Rat(33, 2)}

Frames == [w : Widths, h : Heights, t : Timestamps]

\* the decode stage delivers samples in strictly increasing timestamp order
Increasing(v) == \A i \in 1..(Len(v) - 1) : NumLt(v[i].t, v[i + 1].t)

\* the files the user can pick: each is the sequence of its video samples
Videos ==
    {v \in UNION {[1..n -> Frames] : n \in 1..MaxFrames} : Increasing(v)}

\* natural size of the loaded /sora.png
WatermarkSizes == {[w |-> 2, h |-> 1], [w |-> 1, h |-> 1]}

\* useState(null) of videoFile and outputVideo
NoFile == <<>>
NoOutput == [url |-> 0, frames |-> <<>>, input |-> <<>>]
\* let ctx = null
NullCtx == [made |-> FALSE, w |-> 0, h |-> 0]

----------------------------------------------------------------------------
(* The process callback *)

\* if (!ctx) { new OffscreenCanvas(sample.displayWidth, sample.displayHeight) }
EnsureCtx(c, sample) ==
    IF c.made THEN c ELSE [made |-> TRUE, w |-> sample.w, h |-> sample.h]

\* const wmWidth = ctx.canvas.width / 4
WmWidth(c) == NumDiv(Num(c.w), Num(4))
\* const wmHeight = (watermarkImage.height / watermarkImage.width) * wmWidth
WmHeight(image, wmWidth) == NumMul(NumDiv(Num(image.h), Num(image.w)), wmWidth)

\* a slip: the callback returns nothing for samples after the first 3 seconds
ReturnedDropLate(canvasOut) ==
    IF NumLt(canvasOut.src.t, Num(3)) THEN <<canvasOut>> ELSE <<>>

\* return ctx.canvas: the samples the callback hands back for one input
Returned(canvasOut) == <<canvasOut>>

\* one call of process(sample): the context afterwards and what is returned.
\* The returned canvas is cw x ch, holds the sample drawn at (0, 0) and the
\* watermark drawn at (x, y) with size dw x dh; it is encoded at the sample's
\* timestamp.
Process(c, sample, image) ==
    LET c2 == EnsureCtx(c, sample)
        W == Num(c2.w)
        H == Num(c2.h)
        wmWidth == WmWidth(c2)
        wmHeight == WmHeight(image, wmWidth)
        xy == Place(sample.t, W, H, wmWidth, wmHeight)
    IN  [ctx |-> c2,
         ret |-> Returned([cw |-> c2.w, ch |-> c2.h, src |-> sample,
                           cycle |-> Cycle(sample.t),
                           x |-> xy[1], y |-> xy[2],
                           dw |-> wmWidth, dh |-> wmHeight])]

----------------------------------------------------------------------------
(* State *)

VARIABLES
    videoFile,         \* useState: the selected file (NoFile = null)
    outputVideo,       \* useState: the exposed output (NoOutput = null)
    isProcessing,      \* useState
    status,            \* useState: "none" (null), "loaded", "rendering",
                       \*           "complete", "error"
    showResultDialog,  \* useState
    revoked,           \* object URLs passed to URL.revokeObjectURL
    wm,                \* natural size of the asset /sora.png
    pc,                \* where the applyWatermark run stands
    image,             \* watermarkImage: "none", "loading", "loaded", "failed"
    runVideo,          \* the videoFile the running applyWatermark closed over
    ctx,               \* the run's shared canvas context
    pos,               \* samples the conversion has delivered to process
    encoded,           \* samples handed to the output so far
    runs,              \* applyWatermark runs started
    pin,               \* placement query: [t, W, H, w, h]
    pout,              \* its result <<x, y>>, <<>> before it is computed
    pprev,             \* the query's result before the last time shift
    shifts             \* time shifts applied to the query

appVars == <<videoFile, outputVideo, isProcessing, status, showResultDialog,
             revoked>>
runVars == <<pc, image, runVideo, ctx, pos, encoded, runs>>
placeVars == <<pin, pout, pprev, shifts>>
vars == <<appVars, wm, runVars, placeVars>>

NoQuery == [t |-> Num(0), W |-> Num(0), H |-> Num(0), w |-> Num(0), h |-> Num(0)]
NoPrev == [dt |-> 0, t |-> Num(0), xy |-> <<>>]

AppInit ==
    /\ videoFile = NoFile
    /\ outputVideo = NoOutput
    /\ isProcessing = FALSE
    /\ status = "none"
    /\ showResultDialog = FALSE
    /\ revoked = {}
    /\ pc = "idle"
    /\ image = "none"
    /\ runVideo = NoFile
    /\ ctx = NullCtx
    /\ pos = 0
    /\ encoded = <<>>
    /\ runs = 0

Init ==
    /\ AppInit
    /\ wm \in WatermarkSizes
    /\ pin = NoQuery
    /\ pout = <<>>
    /\ pprev = NoPrev
    /\ shifts = 0

----------------------------------------------------------------------------
(* User actions *)

\* onChange of the file input (disabled while isProcessing)
handleVideoUpload(file) ==
    /\ ~isProcessing
    /\ file # NoFile
    /\ videoFile' = file
    /\ showResultDialog' = FALSE
    /\ IF outputVideo # NoOutput
         THEN /\ revoked' = revoked \cup {outputVideo.url}
              /\ outputVideo' = NoOutput
         ELSE UNCHANGED <<revoked, outputVideo>>
    /\ status' = "loaded"
    /\ UNCHANGED <<isProcessing, wm, runVars, placeVars>>

\* onClick of "Reset session" (disabled while isProcessing && !outputVideo)
resetSession ==
    /\ ~(isProcessing /\ outputVideo = NoOutput)
    /\ revoked' = IF outputVideo # NoOutput
                    THEN revoked \cup {outputVideo.url} ELSE revoked
    /\ videoFile' = NoFile
    /\ outputVideo' = NoOutput
    /\ showResultDialog' = FALSE
    /\ status' = "none"
    /\ UNCHANGED <<isProcessing, wm, runVars, placeVars>>

\* onClick of the result dialog's close buttons
closeResultDialog ==
    /\ outputVideo # NoOutput
    /\ showResultDialog
    /\ showResultDialog' = FALSE
    /\ UNCHANGED <<videoFile, outputVideo, isProcessing, status, revoked, wm,
                   runVars, placeVars>>

----------------------------------------------------------------------------
(* applyWatermark, one action per stretch between two awaits *)

\* onClick of "Apply" (disabled while !videoFile || isProcessing), up to the
\* await of the watermark image
applyWatermark ==
    /\ videoFile # NoFile
    /\ ~isProcessing
    /\ runs < MaxRuns
    /\ isProcessing' = TRUE
    /\ status' = "rendering"
    /\ image' = "loading"
    /\ runVideo' = videoFile
    /\ runs' = runs + 1
    /\ pc' = "awaitImage"
    /\ UNCHANGED <<videoFile, outputVideo, showResultDialog, revoked, wm, ctx,
                   pos, encoded, placeVars>>

\* watermarkImage.onload: the awaited promise resolves
imageOnload ==
    /\ pc = "awaitImage"
    /\ image = "loading"
    /\ image' = "loaded"
    /\ pc' = "init"
    /\ UNCHANGED <<appVars, wm, runVideo, ctx, pos, encoded, runs, placeVars>>

\* the image fails to load: no onerror handler is installed, so the awaited
\* promise is never settled
imageOnerror ==
    /\ pc = "awaitImage"
    /\ image = "loading"
    /\ image' = "failed"
    /\ UNCHANGED <<appVars, wm, pc, runVideo, ctx, pos, encoded, runs,
                   placeVars>>

\* new Input, new Output, let ctx = null, await Conversion.init
conversionInit ==
    /\ pc = "init"
    /\ ctx' = NullCtx
    /\ pos' = 0
    /\ encoded' = <<>>
    /\ pc' = "execute"
    /\ UNCHANGED <<appVars, wm, image, runVideo, runs, placeVars>>

\* conversion.execute delivers the next decoded sample to process and hands
\* what it returns to the output
processSample ==
    /\ pc = "execute"
    /\ pos < Len(runVideo)
    /\ LET r == Process(ctx, runVideo[pos + 1], wm)
       IN  /\ ctx' = r.ctx
           /\ encoded' = encoded \o r.ret
    /\ pos' = pos + 1
    /\ UNCHANGED <<appVars, wm, pc, image, runVideo, runs, placeVars>>

\* the run's locals are dropped when applyWatermark returns
RunEnds ==
    /\ pc' = "idle"
    /\ image' = "none"
    /\ runVideo' = NoFile
    /\ ctx' = NullCtx
    /\ pos' = 0
    /\ encoded' = <<>>
    /\ UNCHANGED runs

\* all samples are through: the buffer becomes a blob URL; then finally
executeDone ==
    /\ pc = "execute"
    /\ pos = Len(runVideo)
    /\ outputVideo' = [url |-> runs, frames |-> encoded, input |-> runVideo]
    /\ status' = "complete"
    /\ showResultDialog' = TRUE
    /\ isProcessing' = FALSE
    /\ RunEnds
    /\ UNCHANGED <<videoFile, revoked, wm, placeVars>>

\* something inside the try block throws (Conversion.init, a decode or
\* encode error in execute, getContext returning null, a missing result
\* buffer): catch, then finally
runThrows ==
    /\ pc \in {"init", "execute"}
    /\ status' = "error"
    /\ isProcessing' = FALSE
    /\ RunEnds
    /\ UNCHANGED <<videoFile, outputVideo, showResultDialog, revoked, wm,
                   placeVars>>

RunStep ==
    \/ imageOnload
    \/ imageOnerror
    \/ conversionInit
    \/ processSample
    \/ executeDone
    \/ runThrows

Next ==
    \/ \E file \in Videos : handleVideoUpload(file)
    \/ resetSession
    \/ closeResultDialog
    \/ applyWatermark
    \/ RunStep

Spec == Init /\ [][Next]_vars

\* the browser's event loop runs every continuation that is ready, and an
\* image load ends by firing onload or by failing
FairSpec == Spec /\ WF_vars(RunStep)

----------------------------------------------------------------------------
(* The placement as a function of its inputs: a query is a timestamp and a  *)
(* geometry; it is evaluated, and evaluated again for later timestamps     *)

QueryTimes ==
    {Num(-1), Num(0), Rat(3, 2), Rat(2999, 1000), Num(3), Num(4), Num(6),
     Num(9), Num(12), Rat(29, 2)}
QueryWidths == {Num(0), Num(16), Num(1280)}
QueryHeights == {Num(0), Num(8), Num(720)}
QueryWmWidths == {Num(0), Num(4), Num(320)}
QueryWmHeights == {Num(0), Num(4), Rat(9, 2), Num(180)}
\* seconds between two evaluations for the same geometry
QueryShifts == {3, 15}

PlaceInit ==
    /\ AppInit
    /\ wm = [w |-> 1, h |-> 1]
    /\ pin \in [t : QueryTimes, W : QueryWidths, H : QueryHeights,
                w : QueryWmWidths, h : QueryWmHeights]
    /\ pout = <<>>
    /\ pprev = NoPrev
    /\ shifts = 0

\* the placement code runs for the query
placeEval ==
    /\ pout = <<>>
    /\ pout' = Place(pin.t, pin.W, pin.H, pin.w, pin.h)
    /\ UNCHANGED <<appVars, wm, runVars, pin, pprev, shifts>>

\* the placement code runs again, dt seconds later, for the same geometry
placeShift(dt) ==
    /\ pout # <<>>
    /\ shifts < MaxShifts
    /\ pin' = [pin EXCEPT !.t = NumAdd(@, Num(dt))]
    /\ pprev' = [dt |-> dt, t |-> pin.t, xy |-> pout]
    /\ pout' = Place(pin'.t, pin.W, pin.H, pin.w, pin.h)
    /\ shifts' = shifts + 1
    /\ UNCHANGED <<appVars, wm, runVars>>

PlaceNext ==
    \/ placeEval
    \/ \E dt \in QueryShifts : placeShift(dt)

PlaceSpec == PlaceInit /\ [][PlaceNext]_vars

----------------------------------------------------------------------------
(* The reference schedule of the specification *)

\* t mod 15 for t >= 0
RefCycle(t) == Rat(t[1] % (15 * t[2]), t[2])

\* the half-open interval [3(i-1), 3i) the cycle value lies in
InInterval(cycle, i) ==
    /\ ~NumLt(cycle, Num(3 * (i - 1)))
    /\ NumLt(cycle, Num(3 * i))

RefPlace(t, W, H, w, h) ==
    LET cycle == RefCycle(t)
        right == NumSub(W, NumMul(Rat(5, 4), w))
        left == NumMul(Rat(1, 4), w)
        lower == NumSub(H, NumMul(Rat(3, 2), h))
        upper == NumMul(Rat(1, 2), h)
    IN  CASE InInterval(cycle, 1) -> <<right, NumMul(Rat(1, 2), NumSub(H, h))>>
          [] InInterval(cycle, 2) -> <<left, lower>>
          [] InInterval(cycle, 3) -> <<right, upper>>
          [] InInterval(cycle, 4) -> <<right, lower>>
          [] InInterval(cycle, 5) -> <<left, upper>>

Scenario(t) ==
    [t |-> t, W |-> Num(1280), H |-> Num(720), w |-> Num(320), h |-> Num(180)]

----------------------------------------------------------------------------
(* Claims *)

\* C1: for every timestamp t >= 0 and every geometry W, H, w, h >= 0 the
\* (x, y) the placement code computes equals the reference schedule; for
\* W=1280, H=720, w=320, h=180 it is (880, 270) at t=1.5 and (80, 450) at t=4.
C1_PlaceMatchesSchedule ==
    /\ (pout # <<>> /\ ~NumLt(pin.t, Num(0)))
          => pout = RefPlace(pin.t, pin.W, pin.H, pin.w, pin.h)
    /\ (pout # <<>> /\ pin = Scenario(Rat(3, 2)))
          => pout = <<Num(880), Num(270)>>
    /\ (pout # <<>> /\ pin = Scenario(Num(4)))
          => pout = <<Num(80), Num(450)>>

C1_Witness ==
    /\ pin = Scenario(Rat(3, 2))
    /\ pout = <<Num(880), Num(270)>>

\* C2: the placement is periodic with period 15 seconds: for all timestamps
\* t and any fixed geometry, the (x, y) computed for t + 15 equals the
\* (x, y) computed for t.
C2_Periodic ==
    pprev.dt = 15 => pout = pprev.xy

\* C3: for every frame timestamp the pipeline processes, the cycle value
\* used for bucket selection lies in [0, 15) and in exactly one of the five
\* half-open intervals, and the branch taken is the one of that interval.
C3_CycleInPartition ==
    \A i \in 1..Len(encoded) :
        LET cycle == encoded[i].cycle
        IN  /\ ~NumLt(cycle, Num(0))
            /\ NumLt(cycle, Num(15))
            /\ Cardinality({b \in 1..5 : InInterval(cycle, b)}) = 1
            /\ InInterval(cycle, Branch(cycle))

\* C4: for every frame, including frames whose width differs from the first
\* frame's, the watermark draw width is that frame's width / 4 and the draw
\* height is watermark.height / watermark.width times that draw width.
C4_ScalePerFrame ==
    \A i \in 1..Len(encoded) :
        /\ encoded[i].dw = NumDiv(Num(encoded[i].src.w), Num(4))
        /\ encoded[i].dh = NumMul(Rat(wm.h, wm.w), encoded[i].dw)

\* C5: if the watermark asset fails to load, the run aborts: no frame is
\* processed, the failure is signalled (error status) and the run ends
\* (the processing flag returns to false).
C5_LoadFailureAborts ==
    /\ [](image = "failed" => (pc # "execute" /\ encoded = <<>>))
    /\ (image = "failed") ~> (status = "error" /\ ~isProcessing)

\* C6: every run is all-or-nothing; after any sequence of uploads and runs
\* an error status never coexists with an exposed output.
C6_AllOrNothing ==
    status = "error" => outputVideo = NoOutput

\* C7: for N input frames with strictly increasing timestamps the compositor
\* emits exactly N output frames, one per input frame, in the same order:
\* while a run executes, the emitted frames are the delivered frames in
\* order, and an exposed output holds one frame per frame of its input.
SameFrames(out, in, n) ==
    /\ Len(out) = n
    /\ \A i \in 1..n : out[i].src = in[i]

C7_OrderPreserved ==
    /\ pc = "execute" => SameFrames(encoded, runVideo, pos)
    /\ outputVideo # NoOutput
          => SameFrames(outputVideo.frames, outputVideo.input,
                        Len(outputVideo.input))

C7_Witness ==
    /\ outputVideo # NoOutput
    /\ Len(outputVideo.input) >= 2
    /\ Len(outputVideo.frames) = Len(outputVideo.input)

\* C8: a frame with zero or negative width or height is rejected before
\* compositing: no frame of such a size is composited and no draw of the
\* watermark has a zero or negative size.
C8_InvalidGeometryRejected ==
    \A i \in 1..Len(encoded) :
        /\ encoded[i].src.w > 0
        /\ encoded[i].src.h > 0
        /\ NumLt(Num(0), encoded[i].dw)
        /\ NumLt(Num(0), encoded[i].dh)

\* C9: the output for a frame depends only on that frame's width, height and
\* timestamp and on the watermark: it is the output the same frame gets when
\* no frame was processed before it.
C9_IndependentOfNeighbours ==
    \A i \in 1..Len(encoded) :
        encoded[i] = Process(NullCtx, runVideo[i], wm).ret[1]

\* C10 as claimed: for every geometry with W, H > 0, w = W/4 and h > 0 the
\* placements of two consecutive schedule buckets (the fifth wrapping to the
\* first) are different points.
ConsecutiveBuckets ==
    /\ pprev.dt = 3
    /\ Branch(Cycle(pin.t)) = (Branch(Cycle(pprev.t)) % 5) + 1

QuarterGeometry ==
    /\ NumLt(Num(0), pin.W)
    /\ NumLt(Num(0), pin.H)
    /\ pin.w = NumDiv(pin.W, Num(4))
    /\ NumLt(Num(0), pin.h)

C11_OutputHasVideo ==
    /\ [](outputVideo # NoOutput => videoFile # NoFile)
    /\ [][(videoFile = NoFile /\ outputVideo = NoOutput)
             => outputVideo' = NoOutput]_vars

====
